---- MODULE Spec2Model ----
(***************************************************************************)
(* Model of the pipeline orchestration layer of remove-subs:               *)
(*   docker/s3_handler.py       S3Handler (storage staging client)         *)
(*   docker/video_processor.py  VideoProcessor (media I/O adapter)         *)
(*   docker/gpu_detector.py     detect_gpu (capability detector)           *)
(*   notebook/lama_zits_pipeline.py  check_environment                     *)
(* Strings that the code parses are sequences of one-character strings.    *)
(* External collaborators (boto3, ffmpeg, ffprobe, torch) are the          *)
(* environment: each call's outcome is chosen nondeterministically among   *)
(* the outcomes the code distinguishes.                                    *)
(***************************************************************************)
EXTENDS Integers, Sequences, FiniteSets, TLC

\* ------------------------------------------------------------------ bounds
\* Longest remainder of a URL after its beginning.
MaxRest == 3
\* Most operations performed on one S3Handler.
MaxCalls == 2
\* Most files in a local tree handed to upload_directory.
MaxFiles == 2
\* Most frames in a source video.
MaxFrames == 2
\* Most accelerators torch.cuda.device_count reports.
MaxGpus == 2
\* Largest width and height of a mask image.
MaxSide == 3

VARIABLES
    url,            \* the argument of a direct parse_s3_url call
    out,            \* what that call returned or raised
    aws_available,  \* S3Handler.aws_available, set by __init__
    fs,             \* local files of the storage client: path -> "absent" | "empty" | "data"
    dirs,           \* local directories that exist
    requests,       \* remote requests issued so far, counted by kind
    calls,          \* operations performed so far
    ret,            \* what the last operation did and returned
    vdir_exists,    \* whether the frames directory exists
    vdir,           \* the files in the frames directory
    out_video,      \* the file at output_path: Absent, or the ffmpeg run that wrote it
    ffmpeg_runs,    \* ffmpeg invocations so far
    vcalls,         \* VideoProcessor operations performed so far
    vret,           \* what the last VideoProcessor operation did and returned
    torch,          \* the runtime's accelerator subsystem, as the queries find it
    in_docker,      \* whether /.dockerenv exists
    environ,        \* the PIPELINE_* variables of os.environ
    gcalls,         \* detection functions called so far
    gret,           \* what the last detection function returned or raised
    minput,         \* the size and region a mask is drawn for
    mask,           \* the mask drawn: pixel <<x, y>> -> value, empty before the call
    prun,           \* a pipeline run's configuration: where input and output live
    pstate,         \* the orchestrator's state
    pfailed,        \* the stage a failed run names
    ptrace,         \* the stages started so far, each with its reported outcome
    pprofile,       \* the device the capability stage settled on
    pframes,        \* frames the extraction stage left on disk
    mdir,           \* the masks directory: the set of files in it
    fsize,          \* pixel dimensions of the frames in the frames directory
    mret            \* what the last mask or corpus generation did and returned

parsevars == <<url, out>>
s3vars == <<aws_available, fs, dirs, requests, calls, ret>>
videovars == <<vdir_exists, vdir, out_video, ffmpeg_runs, vcalls, vret>>
gpuvars == <<torch, in_docker, environ, gcalls, gret>>
maskvars == <<minput, mask>>
pipevars == <<prun, pstate, pfailed, ptrace, pprofile, pframes>>
corpusvars == <<mdir, fsize, mret>>
vars == <<url, out, aws_available, fs, dirs, requests, calls, ret,
          vdir_exists, vdir, out_video, ffmpeg_runs, vcalls, vret,
          torch, in_docker, environ, gcalls, gret,
          minput, mask,
          prun, pstate, pfailed, ptrace, pprofile, pframes,
          mdir, fsize, mret>>

\* ------------------------------------------------------------- strings
Chars == {"a", "b", "/"}
Scheme == <<"s", "3", ":", "/", "/">>
\* Beginnings of the URLs tried: the scheme, the scheme cut short, none.
Prefixes == {Scheme, <<"s", "3", ":", "/">>, <<"s", "3">>, <<>>}
Rests == UNION {[1..n -> Chars] : n \in 0..MaxRest}
Urls == {p \o r : p \in Prefixes, r \in Rests}

\* str.startswith
StartsWith(s, p) == Len(s) >= Len(p) /\ SubSeq(s, 1, Len(p)) = p

\* Index of the first occurrence of c in s, 0 when there is none.
IndexOf(s, c) ==
    IF \E i \in 1..Len(s) : s[i] = c
    THEN CHOOSE i \in 1..Len(s) : s[i] = c /\ \A j \in 1..(i - 1) : s[j] # c
    ELSE 0

\* str.split(c, 1): at most one split, at the first c.
Split1(s, c) ==
    LET i == IndexOf(s, c) IN
    IF i = 0 THEN <<s>>
    ELSE <<SubSeq(s, 1, i - 1), SubSeq(s, i + 1, Len(s))>>

\* S3Handler.parse_s3_url: ok = FALSE stands for the ValueError raised.
parse_s3_url(s3_url) ==
    IF ~StartsWith(s3_url, Scheme)
    THEN [ok |-> FALSE, bucket |-> <<>>, key |-> <<>>]
    ELSE LET path == SubSeq(s3_url, 6, Len(s3_url))
             parts == Split1(path, "/")
         IN IF Len(parts) < 2
            THEN [ok |-> FALSE, bucket |-> <<>>, key |-> <<>>]
            ELSE [ok |-> TRUE, bucket |-> parts[1], key |-> parts[2]]

\* ------------------------------------------------ storage staging client
\* The locators the operations are called with: well formed, with an empty
\* key, without a key, without the scheme.
TestUrls == {Scheme \o <<"b", "/", "a">>, Scheme \o <<"b", "/">>,
             Scheme \o <<"b">>, <<"b", "/", "a">>}

\* Local paths handed to download_file and upload_file: one inside a
\* directory, one bare file name (os.path.dirname gives '').
LocalPaths == {[dir |-> "data", base |-> "video.mp4"],
               [dir |-> "", base |-> "video.mp4"]}
LocalDirs == {"data"}
FileStates == {"absent", "empty", "data"}

\* A local tree in os.walk order: t[d] is the number of files of the d-th
\* directory visited (none when local_dir does not exist), a file is <<d, f>>.
TreeSize(t) == IF Len(t) = 0 THEN 0
               ELSE IF Len(t) = 1 THEN t[1] ELSE t[1] + t[2]
Trees == {t \in UNION {[1..n -> 0..MaxFiles] : n \in 0..2} : TreeSize(t) <= MaxFiles}
AllFiles(t) == {x \in (1..Len(t)) \X (1..MaxFiles) : x[2] <= t[x[1]]}

NoPath == [dir |-> "", base |-> ""]
NoRequests == [get |-> 0, put |-> 0, head |-> 0]
\* The record of an operation: its name, what it returned ("True", "False",
\* "Raise" for an exception that left it), and what it did on the way.
NoRet == [op |-> "none", result |-> "none", parsed |-> FALSE, path |-> NoPath,
          walked |-> FALSE, tree |-> <<>>, attempted |-> <<>>, failed |-> <<>>,
          uploaded |-> 0, failing |-> {}, head |-> "none"]

\* The outcome of a direct parse_s3_url call.
NoOut == [state |-> "pending", bucket |-> <<>>, key |-> <<>>]

\* S3Handler.__init__: list_buckets succeeded (TRUE) or raised
\* NoCredentialsError / ClientError (FALSE).
S3Start ==
    /\ aws_available \in BOOLEAN
    /\ dirs \in SUBSET LocalDirs
    /\ fs \in [LocalPaths -> FileStates]
    /\ \A p \in LocalPaths : fs[p] # "absent" => (p.dir = "" \/ p.dir \in dirs)
    /\ requests = NoRequests
    /\ calls = 0
    /\ ret = NoRet

\* The storage client left alone.
S3Idle ==
    /\ aws_available = TRUE
    /\ dirs = {}
    /\ fs = [p \in LocalPaths |-> "absent"]
    /\ requests = NoRequests
    /\ calls = 0
    /\ ret = NoRet

\* No direct parse_s3_url call.
ParseIdle ==
    /\ url = <<>>
    /\ out = NoOut

\* The "if not self.aws_available: return False" branch of an operation.
Refuse(op) ==
    /\ ret' = [NoRet EXCEPT !.op = op, !.result = "False"]
    /\ UNCHANGED <<fs, dirs, requests>>

\* An operation that returns early, before any remote request or local write.
EarlyReturn(op, ok, path, result) ==
    /\ ret' = [NoRet EXCEPT !.op = op, !.result = result, !.parsed = ok,
                             !.path = path]
    /\ UNCHANGED <<fs, dirs, requests>>

\* The try block of download_file. get is what s3_client.download_file
\* did: "raise", or the state of the local file after it returned.
download_try(s3_url, local_path, get) ==
    LET p == parse_s3_url(s3_url) IN
    IF ~p.ok THEN EarlyReturn("download_file", FALSE, local_path, "False")
    ELSE IF local_path.dir = ""
    THEN \* os.makedirs('') raises FileNotFoundError, caught below
         EarlyReturn("download_file", TRUE, local_path, "False")
    ELSE /\ dirs' = dirs \cup {local_path.dir}
         /\ requests' = [requests EXCEPT !.get = @ + 1]
         /\ fs' = IF get = "raise" THEN fs ELSE [fs EXCEPT ![local_path] = get]
         /\ ret' = [NoRet EXCEPT !.op = "download_file", !.parsed = TRUE,
                                 !.path = local_path,
                                 !.result = IF get = "raise" THEN "False"
                                            ELSE IF fs'[local_path] # "absent"
                                                 THEN "True" ELSE "False"]

\* download_file without its aws_available guard.
download_file_unguarded(s3_url, local_path, get) ==
    download_try(s3_url, local_path, get)

\* S3Handler.download_file
download_file(s3_url, local_path, get) ==
    IF ~aws_available THEN Refuse("download_file")
    ELSE download_try(s3_url, local_path, get)

\* S3Handler.upload_file; put is what s3_client.upload_file did.
upload_file(local_path, s3_url, put) ==
    IF ~aws_available THEN Refuse("upload_file")
    ELSE LET p == parse_s3_url(s3_url) IN
         IF ~p.ok THEN EarlyReturn("upload_file", FALSE, local_path, "False")
         ELSE IF fs[local_path] = "absent"
         THEN EarlyReturn("upload_file", TRUE, local_path, "False")
         ELSE /\ requests' = [requests EXCEPT !.put = @ + 1]
              /\ ret' = [NoRet EXCEPT !.op = "upload_file", !.parsed = TRUE,
                                      !.path = local_path,
                                      !.result = IF put = "ok" THEN "True"
                                                 ELSE "False"]
              /\ UNCHANGED <<fs, dirs>>

\* The body of upload_directory's inner loop with the counter incremented
\* before the upload is known to have succeeded.
upload_one_counts_attempts(acc, file, failing) ==
    IF file \in failing
    THEN [acc EXCEPT !.attempted = Append(@, file), !.failed = Append(@, file),
                     !.uploaded = @ + 1]
    ELSE [acc EXCEPT !.attempted = Append(@, file), !.uploaded = @ + 1]

\* The body of upload_directory's inner loop for one file: the upload is
\* attempted; it raises for the files in failing, and the failure is printed.
upload_one(acc, file, failing) ==
    IF file \in failing
    THEN [acc EXCEPT !.attempted = Append(@, file), !.failed = Append(@, file)]
    ELSE [acc EXCEPT !.attempted = Append(@, file), !.uploaded = @ + 1]

\* "for file in files" over the files f..n of directory d.
RECURSIVE upload_files(_, _, _, _, _)
upload_files(d, n, f, failing, acc) ==
    IF f > n THEN acc
    ELSE upload_files(d, n, f + 1, failing, upload_one(acc, <<d, f>>, failing))

\* "for root, dirs, files in os.walk(local_dir)" from directory d on.
RECURSIVE upload_walk(_, _, _, _)
upload_walk(t, d, failing, acc) ==
    IF d > Len(t) THEN acc
    ELSE upload_walk(t, d + 1, failing, upload_files(d, t[d], 1, failing, acc))

\* S3Handler.upload_directory over the tree t under local_dir; failing are
\* the files whose s3_client.upload_file raises.
upload_directory(t, s3_base_url, failing) ==
    IF ~aws_available THEN Refuse("upload_directory")
    ELSE LET p == parse_s3_url(s3_base_url) IN
         IF ~p.ok THEN EarlyReturn("upload_directory", FALSE, NoPath, "False")
         ELSE LET acc == upload_walk(t, 1, failing,
                             [attempted |-> <<>>, failed |-> <<>>, uploaded |-> 0])
              IN /\ requests' = [requests EXCEPT !.put = @ + Len(acc.attempted)]
                 /\ ret' = [NoRet EXCEPT !.op = "upload_directory", !.parsed = TRUE,
                                         !.walked = TRUE, !.tree = t,
                                         !.attempted = acc.attempted,
                                         !.failed = acc.failed,
                                         !.uploaded = acc.uploaded,
                                         !.failing = failing,
                                         !.result = IF acc.uploaded > 0 THEN "True"
                                                    ELSE "False"]
                 /\ UNCHANGED <<fs, dirs>>

\* S3Handler.check_file_exists; head is what s3_client.head_object did:
\* "ok", "ClientError", or "OtherError" (an exception that is no ClientError,
\* such as EndpointConnectionError).
check_file_exists(s3_url, head) ==
    IF ~aws_available THEN Refuse("check_file_exists")
    ELSE LET p == parse_s3_url(s3_url) IN
         IF ~p.ok
         THEN \* the ValueError is no ClientError: it leaves the method
              EarlyReturn("check_file_exists", FALSE, NoPath, "Raise")
         ELSE /\ requests' = [requests EXCEPT !.head = @ + 1]
              /\ ret' = [NoRet EXCEPT !.op = "check_file_exists", !.parsed = TRUE,
                                      !.head = head,
                                      !.result = CASE head = "ok" -> "True"
                                                   [] head = "ClientError" -> "False"
                                                   [] OTHER -> "Raise"]
              /\ UNCHANGED <<fs, dirs>>

\* One more operation on the handler; nothing else changes with it.
Call ==
    /\ calls < MaxCalls
    /\ calls' = calls + 1
    /\ UNCHANGED <<aws_available, parsevars, videovars, gpuvars, maskvars, pipevars, corpusvars>>

Download ==
    /\ Call
    /\ \E u \in TestUrls, l \in LocalPaths, get \in {"raise"} \cup FileStates :
          download_file(u, l, get)
Upload ==
    /\ Call
    /\ \E u \in TestUrls, l \in LocalPaths, put \in {"ok", "raise"} :
          upload_file(l, u, put)
UploadDirectory ==
    /\ Call
    /\ \E t \in Trees, u \in TestUrls :
          \E failing \in SUBSET AllFiles(t) : upload_directory(t, u, failing)
CheckFileExists ==
    /\ Call
    /\ \E u \in TestUrls, head \in {"ok", "ClientError", "OtherError"} :
          check_file_exists(u, head)

\* --------------------------------------------------- parse_s3_url alone
ParseStart ==
    /\ url \in Urls
    /\ out = NoOut

\* A direct call of S3Handler.parse_s3_url (as main does).
ParseUrl ==
    /\ out.state = "pending"
    /\ LET p == parse_s3_url(url) IN
       out' = IF p.ok THEN [state |-> "returned", bucket |-> p.bucket, key |-> p.key]
              ELSE [state |-> "raised", bucket |-> <<>>, key |-> <<>>]
    /\ UNCHANGED <<url, s3vars, videovars, gpuvars, maskvars, pipevars, corpusvars>>

\* ------------------------------------------------------ media I/O adapter
Absent == 0 - 1

\* A file name: frame_00001.png is [stem "frame_", pad 5, n 1, ext "png"].
Frame(n) == [stem |-> "frame_", pad |-> 5, n |-> n, ext |-> "png"]
\* Other files a frames directory may hold: a frame named as the notebook
\* generator names it (frame_000.png), a mask, a file that is no image.
NotebookFrame == [stem |-> "frame_", pad |-> 3, n |-> 0, ext |-> "png"]
MaskFile == [stem |-> "mask_", pad |-> 5, n |-> 1, ext |-> "png"]
NotesFile == [stem |-> "notes", pad |-> 0, n |-> 0, ext |-> "txt"]
OtherFiles == {NotebookFrame, MaskFile, NotesFile}
Frames(k) == {Frame(n) : n \in 1..k}

\* f.endswith('.png')
EndsWithPng(f) == f.ext = "png"
\* The listing both operations take: [f for f in os.listdir(d) if f.endswith('.png')]
PngFiles(d) == {f \in d : EndsWithPng(f)}
\* A name the pattern frame_%05d.png stands for.
MatchesPattern(f) == f.stem = "frame_" /\ f.pad = 5 /\ f.ext = "png"

\* A source video: what ffprobe makes of it, and its number of frames.
\* probe "raise": subprocess.run or the parsing raised; "nonzero": ffprobe
\* exited nonzero; "no_video_stream": no stream of codec_type video.
ProbeOutcomes == {"ok", "no_video_stream", "nonzero", "raise"}
Videos == [probe : ProbeOutcomes, frames : 0..MaxFrames]

\* get_video_info that returns a dictionary whatever the probe found.
get_video_info_always(video) == "info"

\* VideoProcessor.get_video_info: the dictionary ("info") or None.
get_video_info(video) == IF video.probe = "ok" THEN "info" ELSE "None"

\* list.insert(i, x) of Python, on a sequence.
ListInsert(s, i, x) ==
    LET k == IF i < 0 THEN (IF Len(s) + i < 0 THEN 0 ELSE Len(s) + i)
             ELSE (IF i > Len(s) THEN Len(s) ELSE i)
    IN SubSeq(s, 1, k) \o <<x>> \o SubSeq(s, k + 1, Len(s))

\* The argument list extract_frames builds; target_fps is "None" or a rate.
extract_cmd(target_fps) ==
    LET cmd == <<"ffmpeg", "-i", "video_path", "-vf", "scale=256:256",
                 "-q:v", "2", "output_dir/frame_%05d.png">>
    IN IF target_fps # "None"
       THEN ListInsert(ListInsert(cmd, 0 - 2, "-r"), 0 - 1, target_fps)
       ELSE cmd

NoVideo == [probe |-> "none", frames |-> 0]
NoVRet == [op |-> "none", result |-> "none", video |-> NoVideo, created |-> FALSE,
           invoked |-> FALSE, rc |-> "none", cmd |-> <<>>,
           target_fps |-> "None", assembled |-> 0]

\* The frames ffmpeg reads through -i frames_dir/frame_%05d.png: the files
\* numbered 1, 2, ... up to the first number that is missing.
frames_read(d) ==
    CHOOSE k \in 0..Cardinality(d) : Frames(k) \subseteq d /\ Frame(k + 1) \notin d

VideoStart ==
    /\ vdir_exists \in BOOLEAN
    /\ vdir \in {Frames(k) \cup o : k \in 0..MaxFrames, o \in SUBSET OtherFiles}
    /\ ~vdir_exists => vdir = {}
    /\ out_video = Absent
    /\ ffmpeg_runs = 0
    /\ vcalls = 0
    /\ vret = NoVRet

\* The media adapter left alone.
VideoIdle ==
    /\ vdir_exists = FALSE
    /\ vdir = {}
    /\ out_video = Absent
    /\ ffmpeg_runs = 0
    /\ vcalls = 0
    /\ vret = NoVRet

\* VideoProcessor.extract_frames. mk is what os.makedirs did, tool what
\* ffmpeg did: it raised (not installed), or exited with rc having written
\* the frames 1..written.
extract_frames(video, target_fps, mk, tool) ==
    IF mk = "raise"
    THEN /\ vret' = [NoVRet EXCEPT !.op = "extract_frames", !.result = "False",
                                   !.video = video]
         /\ UNCHANGED <<vdir_exists, vdir, out_video, ffmpeg_runs>>
    ELSE IF get_video_info(video) = "None"
    THEN /\ vdir_exists' = TRUE
         /\ vret' = [NoVRet EXCEPT !.op = "extract_frames", !.result = "False",
                                   !.video = video, !.created = ~vdir_exists]
         /\ UNCHANGED <<vdir, out_video, ffmpeg_runs>>
    ELSE /\ vdir_exists' = TRUE
         /\ ffmpeg_runs' = ffmpeg_runs + 1
         /\ vdir' = IF tool.rc = "raise" THEN vdir ELSE vdir \cup Frames(tool.written)
         /\ vret' = [NoVRet EXCEPT !.op = "extract_frames", !.video = video,
                                   !.created = ~vdir_exists, !.invoked = TRUE,
                                   !.rc = tool.rc, !.cmd = extract_cmd(target_fps),
                                   !.target_fps = target_fps,
                                   !.result = IF tool.rc = "0" THEN "True" ELSE "False"]
         /\ UNCHANGED out_video

\* VideoProcessor.create_video. tool is what ffmpeg did: it raised, or exited
\* with rc, having written output_path or not.
create_video(tool) ==
    IF ~vdir_exists \/ PngFiles(vdir) = {}
    THEN \* os.listdir raised (caught), or the listing is empty
         /\ vret' = [NoVRet EXCEPT !.op = "create_video", !.result = "False"]
         /\ UNCHANGED <<vdir_exists, vdir, out_video, ffmpeg_runs>>
    ELSE /\ ffmpeg_runs' = ffmpeg_runs + 1
         /\ out_video' = IF tool.wrote THEN ffmpeg_runs' ELSE out_video
         /\ vret' = [NoVRet EXCEPT !.op = "create_video", !.invoked = TRUE,
                                   !.rc = tool.rc,
                                   !.assembled = IF tool.rc = "0" /\ tool.wrote
                                                 THEN frames_read(vdir) ELSE 0,
                                   !.result = IF tool.rc = "0" /\ out_video' # Absent
                                              THEN "True" ELSE "False"]
         /\ UNCHANGED <<vdir_exists, vdir>>

VCall ==
    /\ vcalls < MaxCalls
    /\ vcalls' = vcalls + 1
    /\ UNCHANGED <<parsevars, s3vars, gpuvars, maskvars, pipevars, corpusvars>>

ExtractFrames ==
    /\ VCall
    /\ \E video \in Videos, target_fps \in {"None", "24"},
          mk \in {"ok", "raise"}, rc \in {"0", "1", "raise"}, w \in 0..MaxFrames :
          \* makedirs(exist_ok=True) does not raise on a directory that exists
          /\ mk = "raise" => ~vdir_exists
          \* a run that raised wrote nothing; a run that exited 0 without
          \* resampling wrote every frame of the video
          /\ rc = "raise" => w = 0
          /\ target_fps = "None" => w <= video.frames
          /\ (rc = "0" /\ target_fps = "None") => w = video.frames
          /\ extract_frames(video, target_fps, mk, [rc |-> rc, written |-> w])

CreateVideo ==
    /\ VCall
    /\ \E rc \in {"0", "1", "raise"}, wrote \in BOOLEAN :
          /\ rc = "raise" => ~wrote
          \* ffmpeg exits nonzero when no file matches its input pattern
          /\ rc = "0" => \E f \in vdir : MatchesPattern(f)
          /\ create_video([rc |-> rc, wrote |-> wrote])

\* --------------------------------------------------- capability detector
\* The runtime as the queries find it: torch importable or not; what
\* torch.cuda.is_available, device_count, get_device_name and
\* get_device_properties do ("raise": the call raises).
NoTorch == [installed |-> FALSE, avail |-> "none", count |-> 0, name |-> "none",
            props |-> "none"]
Runtimes ==
    {NoTorch}
    \cup {[installed |-> TRUE, avail |-> a, count |-> 0, name |-> "none",
            props |-> "none"] : a \in {"False", "raise"}}
    \cup {[installed |-> TRUE, avail |-> "True", count |-> c, name |-> n, props |-> q] :
             c \in 1..MaxGpus, n \in {"ok", "raise"}, q \in {"ok", "raise"}}

NoConfig == [gpu_available |-> FALSE, gpu_count |-> 0, device |-> "none",
             download_weights |-> FALSE, gpu_name |-> "none", gpu_memory |-> "none",
             in_docker |-> FALSE]
NoGRet == [op |-> "none", result |-> "none", config |-> NoConfig, exit |-> 0 - 1]
NoEnviron == [PIPELINE_DEVICE |-> "unset", PIPELINE_GPU_AVAILABLE |-> "unset",
              PIPELINE_DOWNLOAD_WEIGHTS |-> "unset"]

GpuStart ==
    /\ torch \in Runtimes
    /\ in_docker \in BOOLEAN
    /\ environ = NoEnviron
    /\ gcalls = 0
    /\ gret = NoGRet

\* The detector left alone.
GpuIdle ==
    /\ torch = NoTorch
    /\ in_docker = FALSE
    /\ environ = NoEnviron
    /\ gcalls = 0
    /\ gret = NoGRet

\* What a detection function did: it returned config, or it raised.
Returned(config) == [raised |-> FALSE, config |-> config]
Raised == [raised |-> TRUE, config |-> NoConfig]

\* gpu_detector.detect_gpu in runtime t. The module imports torch at its
\* top, so without torch the ImportError reaches the caller; no query is
\* wrapped in a try.
detect_gpu(t) ==
    IF ~t.installed \/ t.avail = "raise" THEN Raised
    ELSE LET gpu_available == (t.avail = "True")
             config == [NoConfig EXCEPT
                          !.gpu_available = gpu_available,
                          !.gpu_count = IF gpu_available THEN t.count ELSE 0,
                          !.device = IF gpu_available THEN "cuda" ELSE "cpu",
                          !.download_weights = gpu_available]
         IN IF ~gpu_available THEN Returned(config)
            ELSE IF t.name = "raise" \/ t.props = "raise" THEN Raised
            ELSE Returned([config EXCEPT !.gpu_name = "name", !.gpu_memory = "GiB"])

\* notebook check_environment in runtime t: only the ImportError is caught.
check_environment(t, docker) ==
    IF ~t.installed
    THEN Returned([NoConfig EXCEPT !.device = "cpu", !.in_docker = docker])
    ELSE IF t.avail = "raise" THEN Raised
    ELSE Returned([NoConfig EXCEPT !.gpu_available = (t.avail = "True"),
                                   !.device = IF t.avail = "True" THEN "cuda"
                                              ELSE "cpu",
                                   !.in_docker = docker])

\* str(b).lower()
LowerStr(b) == IF b THEN "true" ELSE "false"

GCall ==
    /\ gcalls < MaxCalls
    /\ gcalls' = gcalls + 1
    /\ UNCHANGED <<torch, in_docker, parsevars, s3vars, videovars, maskvars, pipevars, corpusvars>>

\* The record of a call of op that did r.
GRet(op, r) ==
    [NoGRet EXCEPT !.op = op, !.result = IF r.raised THEN "Raise" ELSE "config",
                   !.config = r.config]

DetectGpu ==
    /\ GCall
    /\ gret' = GRet("detect_gpu", detect_gpu(torch))
    /\ UNCHANGED environ

CheckEnvironment ==
    /\ GCall
    /\ gret' = GRet("check_environment", check_environment(torch, in_docker))
    /\ UNCHANGED environ

\* gpu_detector.main: detect, publish the profile into os.environ, and
\* return the exit code.
GpuMain ==
    /\ GCall
    /\ LET r == detect_gpu(torch)
           c == r.config
       IN IF r.raised
          THEN /\ gret' = GRet("main", r)
               /\ UNCHANGED environ
          ELSE /\ environ' = [PIPELINE_DEVICE |-> c.device,
                              PIPELINE_GPU_AVAILABLE |-> LowerStr(c.gpu_available),
                              PIPELINE_DOWNLOAD_WEIGHTS |-> LowerStr(c.download_weights)]
               /\ gret' = [GRet("main", r) EXCEPT
                             !.exit = IF c.gpu_available THEN 0 ELSE 1]

\* ------------------------------------------------------- mask synthesizer
\* The pixels of a width x height image, <<x, y>> with x the column.
Pixels(width, height) == (0..(width - 1)) \X (0..(height - 1))

\* cv2.rectangle(mask, (x1, y1), (x2, y2), 255, -1) on pixel p of an all-zero
\* canvas: the filled rectangle has both corners in it; what lies beyond
\* the image is clipped.
rectangle(p, x1, y1, x2, y2) ==
    IF x1 <= p[1] /\ p[1] <= x2 /\ y1 <= p[2] /\ p[2] <= y2 THEN 255 ELSE 0

\* mask = np.zeros(size); cv2.rectangle(mask, (x1, y1), (x2, y2), 255, -1)
make_mask(width, height, x1, y1, x2, y2) ==
    [p \in Pixels(width, height) |-> rectangle(p, x1, y1, x2, y2)]

NoMask == [p \in {} |-> 0]
NoInput == [width |-> 0, height |-> 0, x1 |-> 0, y1 |-> 0, x2 |-> 0, y2 |-> 0]

\* The sizes and regions tried: corners in order, on the image or on its
\* far edge.
MaskInputs ==
    {i \in [width : 1..MaxSide, height : 1..MaxSide, x1 : 0..MaxSide,
            y1 : 0..MaxSide, x2 : 0..MaxSide, y2 : 0..MaxSide] :
        i.x1 <= i.x2 /\ i.y1 <= i.y2 /\ i.x2 <= i.width /\ i.y2 <= i.height}

MaskStart ==
    /\ minput \in MaskInputs
    /\ mask = NoMask

\* The mask synthesizer left alone.
MaskIdle ==
    /\ minput = NoInput
    /\ mask = NoMask

\* The mask creation of generate_subtitle_masks and of both generators.
MakeMask ==
    /\ mask = NoMask
    /\ mask' = make_mask(minput.width, minput.height,
                         minput.x1, minput.y1, minput.x2, minput.y2)
    /\ UNCHANGED <<minput, parsevars, s3vars, videovars, gpuvars, pipevars, corpusvars>>

\* ------------------------------------------------------- pipeline orchestrator
\* The stages of a run, in the order of the orchestrator's state machine.
StageOrder ==
    <<"detect", "stage_input", "extract", "masks", "reassemble", "stage_output">>

\* The state a stage starts from and the state its success leads to.
StateBefore(stage) ==
    CASE stage = "detect" -> "Init"
      [] stage = "stage_input" -> "CapabilityDetected"
      [] stage = "extract" -> "InputStaged"
      [] stage = "masks" -> "FramesExtracted"
      [] stage = "reassemble" -> "MasksReady"
      [] stage = "stage_output" -> "Reassembled"

StateAfter(stage) ==
    CASE stage = "detect" -> "CapabilityDetected"
      [] stage = "stage_input" -> "InputStaged"
      [] stage = "extract" -> "FramesExtracted"
      [] stage = "masks" -> "MasksReady"
      [] stage = "reassemble" -> "Reassembled"
      [] stage = "stage_output" -> "OutputStaged"

\* FramesExtracted accepts every frame set, the empty one too.
extract_postcondition_any(n) == TRUE

\* FramesExtracted requires a non-empty frame set.
extract_postcondition(n) == n > 0

Places == {"remote", "local"}
PipelineRuns == [input : Places, output : Places]
NoRun == [input |-> "none", output |-> "none"]

PipelineStart ==
    /\ prun \in PipelineRuns
    /\ pstate = "Init"
    /\ pfailed = "none"
    /\ ptrace = <<>>
    /\ pprofile = "none"
    /\ pframes = 0

\* No pipeline run.
PipelineIdle ==
    /\ prun = NoRun
    /\ pstate = "Init"
    /\ pfailed = "none"
    /\ ptrace = <<>>
    /\ pprofile = "none"
    /\ pframes = 0

\* A stage runs from its predecessor's state and reports success or failure;
\* a failure halts the run in Failed(stage).
run_stage(stage, ok) ==
    /\ pstate = StateBefore(stage)
    /\ ptrace' = Append(ptrace, [stage |-> stage, ok |-> ok])
    /\ pstate' = IF ok THEN StateAfter(stage) ELSE "Failed"
    /\ pfailed' = IF ok THEN pfailed ELSE stage
    /\ UNCHANGED <<prun, parsevars, s3vars, videovars, gpuvars, maskvars, corpusvars>>

\* Init -> CapabilityDetected always succeeds: it degrades to cpu.
DetectStage ==
    /\ run_stage("detect", TRUE)
    /\ pprofile' \in {"cpu", "cuda"}
    /\ UNCHANGED pframes

StageInput ==
    /\ \E ok \in BOOLEAN : run_stage("stage_input", ok)
    /\ UNCHANGED <<pprofile, pframes>>

\* The extraction reports a result and leaves n frames; the stage succeeds
\* when the tool did and the frame set meets the postcondition.
ExtractStage ==
    \E tool_ok \in BOOLEAN, n \in 0..MaxFrames :
        /\ run_stage("extract", tool_ok /\ extract_postcondition(n))
        /\ pframes' = n
        /\ UNCHANGED pprofile

MasksStage ==
    /\ \E ok \in BOOLEAN : run_stage("masks", ok)
    /\ UNCHANGED <<pprofile, pframes>>

ReassembleStage ==
    /\ \E ok \in BOOLEAN : run_stage("reassemble", ok)
    /\ UNCHANGED <<pprofile, pframes>>

StageOutput ==
    /\ \E ok \in BOOLEAN : run_stage("stage_output", ok)
    /\ UNCHANGED <<pprofile, pframes>>

\* OutputStaged -> Done.
FinishRun ==
    /\ pstate = "OutputStaged"
    /\ pstate' = "Done"
    /\ UNCHANGED <<prun, pfailed, ptrace, pprofile, pframes,
                   parsevars, s3vars, videovars, gpuvars, maskvars, corpusvars>>

\* ------------------------------------------------------- masks and corpora
\* The (256, 256) of np.zeros and of frame_size, and a size that is not it.
WorkSize == <<256, 256>>
OtherSize == <<640, 360>>
NoSize == <<0, 0>>

\* Frames the docker generator writes, and frames the notebook generator does.
DockerFrameCount == 30
NotebookFrameCount == 10

Mask(pad, n) == [stem |-> "mask_", pad |-> pad, n |-> n, ext |-> "png"]

\* frame_file.replace('frame_', 'mask_')
replace_frame_with_mask(f) ==
    IF f.stem = "frame_" THEN [f EXCEPT !.stem = "mask_"] ELSE f

NoMRet == [op |-> "none", result |-> "none", size |-> NoSize, produced |-> {}]

\* Before a generation: a frames directory as extractions and other writers
\* leave it, its frames all of one size, and a masks directory that is
\* empty or holds masks of an earlier run.
CorpusStart ==
    /\ vdir_exists \in BOOLEAN
    /\ vdir \in {Frames(k) \cup o : k \in 0..MaxFrames, o \in SUBSET OtherFiles}
    /\ ~vdir_exists => vdir = {}
    /\ out_video = Absent
    /\ ffmpeg_runs = 0
    /\ vcalls = 0
    /\ vret = NoVRet
    /\ mdir \in SUBSET {Mask(5, n) : n \in 1..MaxFrames}
    /\ fsize \in {WorkSize, OtherSize}
    /\ mret = NoMRet

\* No generation.
CorpusIdle ==
    /\ mdir = {}
    /\ fsize = WorkSize
    /\ mret = NoMRet

\* VideoProcessor.generate_subtitle_masks. mk is what os.makedirs(masks_dir)
\* did.
generate_subtitle_masks(mk) ==
    IF ~vdir_exists \/ PngFiles(vdir) = {} \/ mk = "raise"
    THEN \* os.listdir raised (caught), no .png file, or makedirs raised (caught)
         /\ mret' = [NoMRet EXCEPT !.op = "generate_subtitle_masks",
                                   !.result = "False"]
         /\ UNCHANGED <<mdir, fsize, vdir, vdir_exists>>
    ELSE /\ mdir' = mdir \cup {replace_frame_with_mask(f) : f \in PngFiles(vdir)}
         /\ mret' = [NoMRet EXCEPT !.op = "generate_subtitle_masks",
                                   !.result = "True", !.size = WorkSize]
         /\ UNCHANGED <<fsize, vdir, vdir_exists>>

\* generate_synthetic_data of docker/lama_zits_pipeline.py
generate_synthetic_data(mk) ==
    IF mk = "raise"
    THEN /\ mret' = [NoMRet EXCEPT !.op = "generate_synthetic_data",
                                   !.result = "Raise"]
         /\ UNCHANGED <<mdir, fsize, vdir, vdir_exists>>
    ELSE LET produced == {Frame(i + 1) : i \in 0..(DockerFrameCount - 1)}
         IN /\ vdir_exists' = TRUE
            /\ vdir' = vdir \cup produced
            /\ mdir' = mdir \cup {Mask(5, i + 1) : i \in 0..(DockerFrameCount - 1)}
            /\ fsize' = WorkSize
            /\ mret' = [NoMRet EXCEPT !.op = "generate_synthetic_data",
                                      !.result = "True", !.size = WorkSize,
                                      !.produced = produced]

\* generate_test_data of notebook/lama_zits_pipeline.py
generate_test_data(mk) ==
    IF mk = "raise"
    THEN /\ mret' = [NoMRet EXCEPT !.op = "generate_test_data", !.result = "Raise"]
         /\ UNCHANGED <<mdir, fsize, vdir, vdir_exists>>
    ELSE LET produced == {[stem |-> "frame_", pad |-> 3, n |-> i, ext |-> "png"] :
                             i \in 0..(NotebookFrameCount - 1)}
         IN /\ vdir_exists' = TRUE
            /\ vdir' = vdir \cup produced
            /\ mdir' = mdir \cup {Mask(3, i) : i \in 0..(NotebookFrameCount - 1)}
            /\ fsize' = WorkSize
            /\ mret' = [NoMRet EXCEPT !.op = "generate_test_data",
                                      !.result = "True", !.size = WorkSize,
                                      !.produced = produced]

\* One generation per run.
MCall ==
    /\ mret = NoMRet
    /\ UNCHANGED <<out_video, ffmpeg_runs, vcalls, vret,
                   parsevars, s3vars, gpuvars, maskvars, pipevars>>

GenerateSubtitleMasks ==
    /\ MCall
    /\ \E mk \in {"ok", "raise"} : generate_subtitle_masks(mk)

\* The generators run on directories whose frames, if any, have frame_size.
GenerateSyntheticData ==
    /\ MCall
    /\ fsize = WorkSize
    /\ \E mk \in {"ok", "raise"} : generate_synthetic_data(mk)

GenerateTestData ==
    /\ MCall
    /\ fsize = WorkSize
    /\ \E mk \in {"ok", "raise"} : generate_test_data(mk)

\* ------------------------------------------------------- specifications
InitS3 == S3Start /\ ParseIdle /\ VideoIdle /\ GpuIdle /\ MaskIdle /\ PipelineIdle /\ CorpusIdle
NextS3 == Download \/ Upload \/ UploadDirectory \/ CheckFileExists
SpecS3 == InitS3 /\ [][NextS3]_vars

InitParse == ParseStart /\ S3Idle /\ VideoIdle /\ GpuIdle /\ MaskIdle /\ PipelineIdle /\ CorpusIdle
SpecParse == InitParse /\ [][ParseUrl]_vars

InitVideo == VideoStart /\ S3Idle /\ ParseIdle /\ GpuIdle /\ MaskIdle /\ PipelineIdle /\ CorpusIdle
NextVideo == ExtractFrames \/ CreateVideo
SpecVideo == InitVideo /\ [][NextVideo]_vars

InitGpu == GpuStart /\ S3Idle /\ ParseIdle /\ VideoIdle /\ MaskIdle /\ PipelineIdle /\ CorpusIdle
NextGpu == DetectGpu \/ CheckEnvironment \/ GpuMain
SpecGpu == InitGpu /\ [][NextGpu]_vars

InitMask == MaskStart /\ S3Idle /\ ParseIdle /\ VideoIdle /\ GpuIdle /\ PipelineIdle /\ CorpusIdle
SpecMask == InitMask /\ [][MakeMask]_vars

InitPipeline ==
    PipelineStart /\ S3Idle /\ ParseIdle /\ VideoIdle /\ GpuIdle /\ MaskIdle /\ CorpusIdle
NextPipeline ==
    \/ DetectStage
    \/ StageInput
    \/ ExtractStage
    \/ MasksStage
    \/ ReassembleStage
    \/ StageOutput
    \/ FinishRun
SpecPipeline == InitPipeline /\ [][NextPipeline]_vars

InitCorpus == CorpusStart /\ S3Idle /\ ParseIdle /\ GpuIdle /\ MaskIdle /\ PipelineIdle
NextCorpus == GenerateSubtitleMasks \/ GenerateSyntheticData \/ GenerateTestData
SpecCorpus == InitCorpus /\ [][NextCorpus]_vars

\* ------------------------------------------------- claims on the storage client
Range(q) == {q[i] : i \in 1..Len(q)}

\* C1: every URI parse_s3_url accepts has the scheme prefix and yields a
\* non-empty bucket and a non-empty key.
C1_AcceptedHasBucketAndKey ==
    out.state = "returned" =>
        /\ StartsWith(url, Scheme)
        /\ out.bucket # <<>>
        /\ out.key # <<>>

\* C2: on a handler constructed with aws_available = False, every operation
\* returns False, issues no remote request and leaves the local files and
\* directories as they were.
C2_UnavailableIsNoOp ==
    [][~aws_available =>
          /\ ret'.result = "False"
          /\ requests' = requests
          /\ fs' = fs
          /\ dirs' = dirs]_vars

\* C2 witness: two operations were performed on an unavailable handler.
C2_Witness ==
    /\ ~aws_available
    /\ calls >= 2
    /\ ret.op = "upload_directory"

\* C3: on an available handler check_file_exists returns a boolean, never
\* raises, and returns True only when head_object succeeded.
C3_ExistsNeverRaises ==
    (aws_available /\ ret.op = "check_file_exists") =>
        /\ ret.result \in {"True", "False"}
        /\ ret.result = "True" => ret.head = "ok"

\* C4: download_file returns True only if the local file exists with a size
\* greater than zero.
C4_DownloadSuccessMeansData ==
    (ret.op = "download_file" /\ ret.result = "True") => fs[ret.path] = "data"

\* C5: when upload_directory walks a tree of N files, every file is attempted
\* exactly once, the uploaded count is N minus the number of failed files,
\* each failed file is reported exactly once, and the call returns True
\* exactly when the uploaded count is at least 1.
C5_UploadTreeAccounting ==
    (ret.op = "upload_directory" /\ ret.walked) =>
        LET files == AllFiles(ret.tree)
            N == Cardinality(files)
        IN /\ Len(ret.attempted) = N
           /\ Range(ret.attempted) = files
           /\ Len(ret.failed) = Cardinality(ret.failing)
           /\ Range(ret.failed) = ret.failing
           /\ ret.uploaded = N - Cardinality(ret.failing)
           /\ (ret.result = "True") <=> (ret.uploaded >= 1)

\* C5 witness: a walk over two directories in which one upload failed and
\* one succeeded.
C5_Witness ==
    /\ ret.op = "upload_directory"
    /\ ret.walked
    /\ Len(ret.tree) = 2
    /\ Len(ret.failed) = 1
    /\ ret.uploaded = 1
    /\ ret.result = "True"

\* --------------------------------------------------- claims on the media adapter
\* C6: extract_frames returns False when the probe finds no video stream, when
\* ffmpeg exits nonzero, and when ffmpeg exits 0 but the output directory
\* lists no frame image; it returns True only when at least one is listed.
C6_ExtractFailsOnEmptyOutput ==
    vret.op = "extract_frames" =>
        /\ vret.video.probe # "ok" => vret.result = "False"
        /\ (vret.invoked /\ vret.rc # "0") => vret.result = "False"
        /\ (vret.invoked /\ vret.rc = "0" /\ PngFiles(vdir) = {}) => vret.result = "False"
        /\ vret.result = "True" => PngFiles(vdir) # {}

\* C7 as claimed: extract_frames on a source whose probe fails or finds no
\* video stream returns False, does not run ffmpeg and leaves the filesystem
\* as it was: no file and no directory is created.
C7_NoStreamLeavesFilesystem ==
    [][(vret'.op = "extract_frames" /\ vret'.video.probe # "ok") =>
          /\ vret'.result = "False"
          /\ ffmpeg_runs' = ffmpeg_runs
          /\ vdir' = vdir
          /\ out_video' = out_video
          /\ vdir_exists' = vdir_exists]_vars

\* C7 as amended: extract_frames on a source whose probe fails or finds no
\* video stream returns False, does not run ffmpeg and creates no file; the
\* output directory is not removed, and it exists afterwards whenever
\* os.makedirs did not raise.
C7_NoStreamCreatesNoFile ==
    [][(vret'.op = "extract_frames" /\ vret'.video.probe # "ok") =>
          /\ vret'.result = "False"
          /\ ~vret'.invoked
          /\ ffmpeg_runs' = ffmpeg_runs
          /\ vdir' = vdir
          /\ out_video' = out_video
          /\ vdir_exists => vdir_exists'
          /\ vret'.created => (~vdir_exists /\ vdir_exists')]_vars

\* C7 witness: a source without a video stream was refused after the output
\* directory had been created for it.
C7_Witness ==
    /\ vret.op = "extract_frames"
    /\ vret.video.probe = "no_video_stream"
    /\ vret.result = "False"
    /\ vret.created
    /\ vdir_exists
    /\ vdir = {}
    /\ ffmpeg_runs = 0

\* C8: create_video runs ffmpeg only when the frames directory holds at least
\* one file named as the pattern frame_%05d.png names them.
C8_AssembleNeedsPatternFrame ==
    (vret.op = "create_video" /\ vret.invoked) => \E f \in vdir : MatchesPattern(f)

\* C9: create_video returns True only if ffmpeg exited 0 and the file at
\* output_path was written by this very invocation.
C9_AssembleSuccessMeansOwnOutput ==
    (vret.op = "create_video" /\ vret.result = "True") =>
        /\ vret.rc = "0"
        /\ out_video = ffmpeg_runs

\* ------------------------------------------- claims on the capability detector
\* C10: detection never raises; when torch is absent or the availability
\* query raises the profile is gpu_available = False, device cpu,
\* download_weights False; when an accelerator is present the profile says so
\* even if the query of its name or memory raises.
C10_DetectionNeverFails ==
    gret.op \in {"detect_gpu", "check_environment"} =>
        /\ gret.result = "config"
        /\ (~torch.installed \/ torch.avail = "raise") =>
               /\ ~gret.config.gpu_available
               /\ gret.config.device = "cpu"
               /\ ~gret.config.download_weights
        /\ torch.avail = "True" => gret.config.gpu_available

\* C13: a video of F frames extracted without a target rate and then
\* assembled from the same directory gives a video of exactly F frames,
\* whatever the directory held before the extraction.
C13_RoundTripKeepsFrameCount ==
    [][(/\ vret.op = "extract_frames" /\ vret.result = "True"
        /\ vret.target_fps = "None"
        /\ vret'.op = "create_video" /\ vret'.result = "True"
        /\ out_video' = ffmpeg_runs') =>
          vret'.assembled = vret.video.frames]_vars

\* C14: after a mask generation or a corpus generation that succeeded, the
\* masks directory holds exactly one mask per frame, named with the frame's
\* number in the frame's width, of the frame's pixel dimensions, and the
\* frames a generator produced are five-digit frame_NNNNN.png files numbered
\* without gaps, as the reassembly reads them.
C14_OneMaskPerFrame ==
    (mret.result = "True") =>
        /\ \A f \in PngFiles(vdir) : f.stem = "frame_"
        /\ mdir = {Mask(f.pad, f.n) : f \in PngFiles(vdir)}
        /\ mret.size = fsize
        /\ \A f \in mret.produced : MatchesPattern(f)
        /\ mret.produced = Frames(Cardinality(mret.produced))

\* C15: the argument list of an extraction has every option directly followed
\* by its own value ('-i' the source, '-vf' 'scale=256:256', '-q:v' '2' and,
\* with a target rate, '-r' the rate), the frame pattern is its last and only
\* positional argument, and without a target rate there is no '-r' at all.
C15_ExtractArgumentsPaired ==
    (vret.op = "extract_frames" /\ vret.invoked) =>
        LET cmd == vret.cmd
            Options == {"-i", "-vf", "-q:v", "-r"}
            Follows(opt, val) ==
                \E i \in 1..(Len(cmd) - 1) : cmd[i] = opt /\ cmd[i + 1] = val
            Positional == {i \in 2..Len(cmd) :
                              cmd[i] \notin Options /\ cmd[i - 1] \notin Options}
        IN /\ Follows("-i", "video_path")
           /\ Follows("-vf", "scale=256:256")
           /\ Follows("-q:v", "2")
           /\ Positional = {Len(cmd)}
           /\ cmd[Len(cmd)] = "output_dir/frame_%05d.png"
           /\ IF vret.target_fps = "None"
              THEN Len(cmd) = 8 /\ \A i \in 1..Len(cmd) : cmd[i] # "-r"
              ELSE Len(cmd) = 10 /\ Follows("-r", vret.target_fps)

\* --------------------------------------------------- claims on the mask synthesizer
\* C11: for 0 <= x1 < x2 <= width and 0 <= y1 < y2 <= height the mask has 255
\* at every pixel of columns x1..x2-1 and rows y1..y2-1 and 0 at every other
\* pixel, the column x2 and the row y2 included.
C11_MaskIsHalfOpenRegion ==
    (mask # NoMask /\ minput.x1 < minput.x2 /\ minput.y1 < minput.y2) =>
        \A p \in Pixels(minput.width, minput.height) :
            mask[p] = IF /\ minput.x1 <= p[1] /\ p[1] < minput.x2
                         /\ minput.y1 <= p[2] /\ p[2] < minput.y2
                      THEN 255 ELSE 0

====
